---- MODULE Spec2Model ----
(***************************************************************************)
(* A model of the two transformations of Social-Insight-Prioritize:        *)
(*   - cleanVttTranscript (utils/transcript.ts): a chain of global regex   *)
(*     replacements followed by trim();                                    *)
(*   - analyzeTranscript (services/geminiService.ts): the cached client,   *)
(*     the AI call, JSON decoding, totalScore and the descending sort.     *)
(* Strings are sequences of one-character strings, so that every regular   *)
(* expression is matched character by character.                           *)
(***************************************************************************)
EXTENDS Integers, Sequences, FiniteSets, TLC

VARIABLES
    text,        \* the raw transcript handed to cleanVttTranscript
    cleaned,     \* what cleanVttTranscript returned for it
    cpc,         \* "idle" | "read" | "cleaned"
    aiClient,    \* _aiClient: the cached client (the key it was built with) or Null
    aiClientKey, \* _aiClientKey
    pc,          \* position of the analyzeTranscript call: "idle" | "awaiting" | "done"
    ai,          \* the client the call in flight uses
    response,    \* what generateContent settled with
    result,      \* how the promise of analyzeTranscript settled
    callCount,   \* how many times analyzeTranscript has been called
    callKey,     \* the apiKey argument of the latest analyzeTranscript call
    clientsBuilt, \* how many times new GoogleGenAI has run
    status,      \* App: useState status
    insights,    \* App: useState insights
    error,       \* App: useState error
    apiKey,      \* App: useState apiKey
    sessionKey,  \* sessionStorage item gemini_api_key ("" when absent)
    calls        \* App: the processFile calls in flight, each at one of its awaits

cleanVars == <<text, cleaned, cpc>>
cacheVars == <<aiClient, aiClientKey, callCount, callKey, clientsBuilt>>
rankVars == <<cacheVars, pc, ai, response, result>>
appVars == <<status, insights, error, apiKey, sessionKey, calls>>
vars == <<cleanVars, rankVars, appVars>>

Null == [t |-> "null"]

(***************************************************************************)
(* Bounds of the model.                                                    *)
(***************************************************************************)
MaxFrags == 4
MaxInsights == 3
MaxCalls == 3
MaxPending == 2

(***************************************************************************)
(* Character classes of the JavaScript regular expressions.                *)
(***************************************************************************)
Digits == {"0", "1", "2", "3", "4", "5", "6", "7", "8", "9"}

Letters ==
    {"A", "B", "C", "D", "E", "F", "G", "H", "I", "J", "K", "L", "M", "N", "O",
     "P", "Q", "R", "S", "T", "U", "V", "W", "X", "Y", "Z",
     "a", "b", "c", "d", "e", "f", "g", "h", "i", "j", "k", "l", "m", "n", "o",
     "p", "q", "r", "s", "t", "u", "v", "w", "x", "y", "z"}

\* \w
WordChars == Letters \cup Digits \cup {"_"}

\* the characters at which ^ and $ (flag m) see a line boundary and which . skips
LineTerminators == {"\n", "\r"}

\* \s, and what trim() strips
WhiteSpace == {" ", "\t", "\n", "\r", "\f"}

IsDigit(c) == c \in Digits

\* ^ under the m flag
AtLineStart(s, i) == i = 1 \/ s[i - 1] \in LineTerminators

\* $ under the m flag
AtLineEnd(s, i) == i = Len(s) + 1 \/ s[i] \in LineTerminators

\* where a greedy .* that starts at i stops: the first line boundary at or after i
LineEnd(s, i) ==
    CHOOSE j \in i..(Len(s) + 1) :
        AtLineEnd(s, j) /\ \A k \in i..(j - 1) : ~AtLineEnd(s, k)

\* \b at position p (between s[p-1] and s[p])
WordBoundary(s, p) ==
    LET before == p > 1 /\ p - 1 <= Len(s) /\ s[p - 1] \in WordChars
        after == p >= 1 /\ p <= Len(s) /\ s[p] \in WordChars
    IN before # after

\* one pattern element against one character: "\\d" is the class, anything else a literal
MatchesToken(c, tok) == IF tok = "\\d" THEN IsDigit(c) ELSE c = tok

\* a fixed-length pattern at position i
MatchesAt(s, i, pat) ==
    /\ i + Len(pat) - 1 <= Len(s)
    /\ \A k \in 1..Len(pat) : MatchesToken(s[i + k - 1], pat[k])

\* the end of the maximal run of characters of class cls that starts at i
RunEnd(s, i, cls) ==
    CHOOSE j \in i..(Len(s) + 1) :
        /\ \A k \in i..(j - 1) : s[k] \in cls
        /\ (j = Len(s) + 1 \/ s[j] \notin cls)

(***************************************************************************)
(* The five regular expressions. Each Match operator answers, for a        *)
(* position i of s, the index just past the match that starts at i, or 0   *)
(* when the expression does not match there.                               *)
(***************************************************************************)
WEBVTT == <<"W", "E", "B", "V", "T", "T">>
NOTE == <<"N", "O", "T", "E">>

\* /^WEBVTT/gm: the token alone, what follows it on the line is kept
MatchWebvttTokenOnly(s, i) ==
    IF AtLineStart(s, i) /\ MatchesAt(s, i, WEBVTT) THEN i + Len(WEBVTT) ELSE 0

\* /^WEBVTT.*$/gm
MatchWebvtt(s, i) ==
    IF AtLineStart(s, i) /\ MatchesAt(s, i, WEBVTT)
    THEN LineEnd(s, i + Len(WEBVTT))
    ELSE 0

\* /^NOTE\b.*$/gm
MatchNote(s, i) ==
    IF AtLineStart(s, i) /\ MatchesAt(s, i, NOTE) /\ WordBoundary(s, i + Len(NOTE))
    THEN LineEnd(s, i + Len(NOTE))
    ELSE 0

\* /^\d+\s*$/gm: \d+ is greedy, \s* is greedy and backtracks to the last
\* position of its run at which $ holds
MatchSeq(s, i) ==
    IF AtLineStart(s, i) /\ i <= Len(s) /\ IsDigit(s[i])
    THEN LET d == RunEnd(s, i, Digits)
             w == RunEnd(s, d, WhiteSpace)
             ends == {p \in d..w : AtLineEnd(s, p)}
         IN IF ends = {} THEN 0
            ELSE CHOOSE p \in ends : \A q \in ends : q <= p
    ELSE 0

TimestampPattern ==
    <<"\\d", "\\d", ":", "\\d", "\\d", ":", "\\d", "\\d", ".", "\\d", "\\d", "\\d">>

ArrowPattern == <<" ", "-", "-", ">", " ">>

\* the dots before the milliseconds left unescaped: any character of the line
MatchTimestampUnescapedDot(s, i) ==
    LET pat == TimestampPattern \o ArrowPattern \o TimestampPattern
    IN IF /\ i + Len(pat) - 1 <= Len(s)
          /\ \A k \in 1..Len(pat) :
               IF pat[k] = "." THEN s[i + k - 1] \notin LineTerminators
               ELSE MatchesToken(s[i + k - 1], pat[k])
       THEN LineEnd(s, i + Len(pat))
       ELSE 0

\* the trailing .* under the s flag: it runs to the end of the text
MatchTimestampDotAll(s, i) ==
    LET pat == TimestampPattern \o ArrowPattern \o TimestampPattern
    IN IF MatchesAt(s, i, pat) THEN Len(s) + 1 ELSE 0

\* /\d{2}:\d{2}:\d{2}\.\d{3} --> \d{2}:\d{2}:\d{2}\.\d{3}.*/g
MatchTimestamp(s, i) ==
    LET pat == TimestampPattern \o ArrowPattern \o TimestampPattern
    IN IF MatchesAt(s, i, pat) THEN LineEnd(s, i + Len(pat)) ELSE 0

\* /\n{3}/g: three newlines at a time
MatchNewlinesExactlyThree(s, i) ==
    IF MatchesAt(s, i, <<"\n", "\n", "\n">>) THEN i + 3 ELSE 0

\* /\n{3,}/g
MatchNewlines(s, i) ==
    IF MatchesAt(s, i, <<"\n", "\n", "\n">>) THEN RunEnd(s, i, {"\n"}) ELSE 0

MatchEnd(rule, s, i) ==
    CASE rule = "webvtt" -> MatchWebvtt(s, i)
      [] rule = "note" -> MatchNote(s, i)
      [] rule = "seq" -> MatchSeq(s, i)
      [] rule = "timestamp" -> MatchTimestamp(s, i)
      [] rule = "newlines" -> MatchNewlines(s, i)

\* String.prototype.replace with a global regular expression: the matches are
\* found left to right in s itself, each search resuming where the last match
\* ended; none of the five expressions matches the empty string
RECURSIVE ReplaceFrom(_, _, _, _)
ReplaceFrom(rule, s, i, with) ==
    IF i > Len(s) THEN <<>>
    ELSE LET e == MatchEnd(rule, s, i)
         IN IF e = 0
            THEN <<s[i]>> \o ReplaceFrom(rule, s, i + 1, with)
            ELSE with \o ReplaceFrom(rule, s, e, with)

Replace(rule, s, with) == ReplaceFrom(rule, s, 1, with)

\* String.prototype.trim
Trim(s) ==
    LET keep == {i \in 1..Len(s) : s[i] \notin WhiteSpace}
    IN IF keep = {} THEN <<>>
       ELSE LET lo == CHOOSE i \in keep : \A j \in keep : i <= j
                hi == CHOOSE i \in keep : \A j \in keep : j <= i
            IN SubSeq(s, lo, hi)

RemoveWebvtt(s) == Replace("webvtt", s, <<>>)
RemoveNotes(s) == Replace("note", s, <<>>)
RemoveSeq(s) == Replace("seq", s, <<>>)
RemoveTimestamps(s) == Replace("timestamp", s, <<>>)
CollapseNewlines(s) == Replace("newlines", s, <<"\n", "\n">>)

cleanVttTranscript(t) ==
    Trim(CollapseNewlines(RemoveTimestamps(RemoveSeq(RemoveNotes(RemoveWebvtt(t))))))

(***************************************************************************)
(* The raw transcripts the file read can deliver: every concatenation of   *)
(* at most MaxFrags fragments, and every one-character malformation of a   *)
(* timestamp line.                                                         *)
(***************************************************************************)
\* "00:00:01.000 --> 00:00:03.500", the cue timing line of transcript.test.ts
Timestamp ==
    <<"0", "0", ":", "0", "0", ":", "0", "1", ".", "0", "0", "0", " ", "-", "-", ">", " ", "0", "0", ":", "0", "0", ":", "0", "3", ".", "5", "0", "0">>

Fragments ==
    { WEBVTT, NOTE, Timestamp,
      <<"0">>, <<"a">>, <<"-">>, <<" ">>, <<"\n">>, <<"\r">>, <<"\n", "\n", "\n">> }

RECURSIVE Concats(_)
Concats(n) ==
    IF n = 0 THEN {<<>>}
    ELSE LET shorter == Concats(n - 1)
         IN shorter \cup {f \o t : f \in Fragments, t \in shorter}

InsertAt(s, p, c) == SubSeq(s, 1, p - 1) \o <<c>> \o SubSeq(s, p, Len(s))
RemoveAt(s, p) == SubSeq(s, 1, p - 1) \o SubSeq(s, p + 1, Len(s))
ReplaceAt(s, p, c) == [s EXCEPT ![p] = c]

\* the positions of the digits, of the two dots and of the arrow in Timestamp
DigitPositions == {p \in 1..Len(Timestamp) : IsDigit(Timestamp[p])}
DotPositions == {p \in 1..Len(Timestamp) : Timestamp[p] = "."}
ArrowPositions == {p \in 1..Len(Timestamp) : Timestamp[p] \in {" ", "-", ">"}}

\* a timestamp line with a wrong digit count in one field
WrongDigitCount ==
    {InsertAt(Timestamp, p, "0") : p \in DigitPositions \cup {Len(Timestamp) + 1}}
        \cup {RemoveAt(Timestamp, p) : p \in DigitPositions}

\* a timestamp line whose seconds and milliseconds are not separated by "."
WrongSeparator == {ReplaceAt(Timestamp, p, "X") : p \in DotPositions}

\* a timestamp line whose arrow is not spelled " --> "
WrongArrow ==
    {RemoveAt(Timestamp, p) : p \in ArrowPositions}
        \cup {InsertAt(Timestamp, p, " ") : p \in ArrowPositions}

MalformedTimestamps == WrongDigitCount \cup WrongSeparator \cup WrongArrow

RawTranscripts == Concats(MaxFrags) \cup MalformedTimestamps

(***************************************************************************)
(* The normalizer as a program: the file read delivers a text, then        *)
(* cleanVttTranscript is applied to it (App.tsx, processFile).             *)
(***************************************************************************)
CleanInit ==
    /\ text = <<>>
    /\ cleaned = <<>>
    /\ cpc = "idle"

\* const text = await file.text()
FileText ==
    /\ cpc = "idle"
    /\ \E t \in RawTranscripts : text' = t
    /\ cleaned' = <<>>
    /\ cpc' = "read"
    /\ UNCHANGED <<rankVars, appVars>>

\* const cleanedText = cleanVttTranscript(text)
CleanVttTranscript ==
    /\ cpc = "read"
    /\ cleaned' = cleanVttTranscript(text)
    /\ cpc' = "cleaned"
    /\ UNCHANGED <<text, rankVars, appVars>>

\* processFile returns: its text and cleanedText go out of scope
ProcessFileDone ==
    /\ cpc = "cleaned"
    /\ text' = <<>>
    /\ cleaned' = <<>>
    /\ cpc' = "idle"
    /\ UNCHANGED <<rankVars, appVars>>

(***************************************************************************)
(* JavaScript numbers, as far as the ranker uses them: a rational n/d      *)
(* (the sub-scores are integers, so the sum and the division by 4 are      *)
(* exact in a double), NaN, and undefined for a property that is absent.   *)
(***************************************************************************)
Num(k) == [t |-> "number", n |-> k, d |-> 1]
NaN == [t |-> "NaN", n |-> 0, d |-> 1]
Undefined == [t |-> "undefined", n |-> 0, d |-> 1]

IsNumber(x) == x.t = "number"

\* a + b: undefined converts to NaN, and NaN is absorbing
Add(a, b) ==
    IF IsNumber(a) /\ IsNumber(b)
    THEN [t |-> "number", n |-> a.n * b.d + b.n * a.d, d |-> a.d * b.d]
    ELSE NaN

\* a / k for a positive integer k
Div(a, k) == IF IsNumber(a) THEN [a EXCEPT !.d = @ * k] ELSE NaN

\* a - b: its sign when both are numbers (denominators are positive), else NaN
Subtract(a, b) ==
    IF IsNumber(a) /\ IsNumber(b)
    THEN LET x == a.n * b.d - b.n * a.d
         IN Num(IF x > 0 THEN 1 ELSE IF x < 0 THEN -1 ELSE 0)
    ELSE NaN

\* a === b on numbers
NumEq(a, b) == IsNumber(a) /\ IsNumber(b) /\ a.n * b.d = b.n * a.d

(***************************************************************************)
(* The values the AI response can decode to.                               *)
(***************************************************************************)
Slide(k) == [title |-> "Title " \o k, content |-> "Content " \o k]

\* one decoded element, shaped as makeInsight of geminiService.test.ts builds it
Insight(id, inf, insp, viral, linkedin, total, slides) ==
    [t |-> "object", id |-> id, summary |-> "Summary " \o id,
     suggestedHook |-> "Hook " \o id, category |-> "Test",
     informativeScore |-> inf, inspiringScore |-> insp, viralScore |-> viral,
     linkedinScore |-> linkedin, totalScore |-> total, carouselSlides |-> slides]

WellFormedInsights ==
    { Insight("low", Num(2), Num(2), Num(2), Num(2), Undefined, <<>>),
      Insight("i1", Num(8), Num(6), Num(4), Num(10), Num(99), <<Slide("1"), Slide("2")>>),
      Insight("tie", Num(10), Num(4), Num(6), Num(8), Undefined, <<Slide("2"), Slide("1")>>),
      Insight("low", Num(3), Num(2), Num(2), Num(2), Num(1), <<Slide("1")>>) }

\* an element the schema's "required" list forbids: viralScore is absent
MissingSubScore ==
    Insight("gap", Num(9), Num(9), Undefined, Num(9), Undefined, <<>>)

Elements == WellFormedInsights \cup {MissingSubScore, Null}

RECURSIVE SeqsUpTo(_, _)
SeqsUpTo(S, n) ==
    IF n = 0 THEN {<<>>}
    ELSE LET shorter == SeqsUpTo(S, n - 1)
         IN shorter \cup {<<x>> \o xs : x \in S, xs \in {ys \in shorter : Len(ys) = n - 1}}

Array(items) == [t |-> "array", items |-> items]

\* a JSON document is represented by the value it encodes: an array of
\* elements, or a value that is no array (e.g. {})
JsonValues == {Array(xs) : xs \in SeqsUpTo(Elements, MaxInsights)} \cup {[t |-> "object", items |-> <<>>]}

\* response.text: absent (null or undefined), "", a non-empty text that is
\* no JSON ("not valid json {{"), or a JSON document
NoText == [t |-> "null", value |-> Null]
\* no response yet, or none at all (generateContent rejected)
NoResponse == [t |-> "none", value |-> Null]
EmptyText == [t |-> "empty", value |-> Null]
GarbageText == [t |-> "garbage", value |-> Null]
JsonText(v) == [t |-> "json", value |-> v]

ResponseTexts == {NoText, EmptyText, GarbageText} \cup {JsonText(v) : v \in JsonValues}

ApiKeys == {"key-1", "key-2"}

(***************************************************************************)
(* analyzeTranscript, lines 92 to 102.                                     *)
(***************************************************************************)
FormatError == "The AI provided an unexpected response format. Please try again."
TransportError == "generateContent rejected"

Pending == [kind |-> "pending", value |-> <<>>, message |-> ""]
Fulfilled(v) == [kind |-> "fulfilled", value |-> v, message |-> ""]
Rejected(m) == [kind |-> "rejected", value |-> <<>>, message |-> m]

\* response.text || "[]"
TextOrDefault(txt) ==
    IF txt.t \in {"null", "empty"} THEN JsonText(Array(<<>>)) ELSE txt

\* JSON.parse: throws a SyntaxError on a text that is no JSON
JSONParse(txt) ==
    IF txt.t = "json" THEN [ok |-> TRUE, value |-> txt.value]
    ELSE [ok |-> FALSE, value |-> Null]

\* reading a property of i throws a TypeError when i is null
Throws(i) == i.t = "null"

\* the spread written last: { totalScore: ..., ...i }, so that a totalScore
\* of the input wins
WithTotalScoreSpreadLast(i) ==
    IF i.totalScore # Undefined THEN i
    ELSE [i EXCEPT !.totalScore =
            Div(Add(Add(Add(i.informativeScore, i.inspiringScore), i.viralScore),
                    i.linkedinScore), 4)]

\* { ...i, totalScore: (i.informativeScore + i.inspiringScore + i.viralScore + i.linkedinScore) / 4 }
WithTotalScore(i) ==
    [i EXCEPT !.totalScore =
        Div(Add(Add(Add(i.informativeScore, i.inspiringScore), i.viralScore),
                i.linkedinScore), 4)]

\* (a, b) => b.totalScore - a.totalScore, as Array.prototype.sort reads it:
\* a NaN result counts as +0
Compare(a, b) ==
    LET v == Subtract(b.totalScore, a.totalScore)
    IN IF IsNumber(v) THEN v.n ELSE 0

\* ECMAScript's consistent comparator, over the elements of xs
ConsistentComparator(xs) ==
    \A i, j, k \in 1..Len(xs) :
        /\ Compare(xs[i], xs[j]) = 0 - Compare(xs[j], xs[i])
        /\ (Compare(xs[i], xs[j]) = 0 /\ Compare(xs[j], xs[k]) = 0)
              => Compare(xs[i], xs[k]) = 0
        /\ (Compare(xs[i], xs[j]) < 0 /\ Compare(xs[j], xs[k]) < 0)
              => Compare(xs[i], xs[k]) < 0
        /\ (Compare(xs[i], xs[j]) = 0 /\ Compare(xs[j], xs[k]) < 0)
              => Compare(xs[i], xs[k]) < 0
        /\ (Compare(xs[i], xs[j]) < 0 /\ Compare(xs[j], xs[k]) = 0)
              => Compare(xs[i], xs[k]) < 0

\* x placed in front of the elements it ties with: a sort that is not stable
InsertSortedUnstable(sorted, x) ==
    LET after == {p \in 1..Len(sorted) : Compare(sorted[p], x) >= 0}
        at == IF after = {} THEN Len(sorted) + 1
              ELSE CHOOSE p \in after : \A q \in after : p <= q
    IN SubSeq(sorted, 1, at - 1) \o <<x>> \o SubSeq(sorted, at, Len(sorted))

\* x placed into a sorted list behind every element that does not sort after it
InsertSorted(sorted, x) ==
    LET after == {p \in 1..Len(sorted) : Compare(sorted[p], x) > 0}
        at == IF after = {} THEN Len(sorted) + 1
              ELSE CHOOSE p \in after : \A q \in after : p <= q
    IN SubSeq(sorted, 1, at - 1) \o <<x>> \o SubSeq(sorted, at, Len(sorted))

RECURSIVE StableSortFrom(_, _, _)
StableSortFrom(xs, i, sorted) ==
    IF i > Len(xs) THEN sorted
    ELSE StableSortFrom(xs, i + 1, InsertSorted(sorted, xs[i]))

\* the stable sort ES2019 requires of Array.prototype.sort
StableSort(xs) == StableSortFrom(xs, 1, <<>>)

Rearrangements(xs) ==
    {[i \in 1..Len(xs) |-> xs[p[i]]] : p \in Permutations(1..Len(xs))}

\* Array.prototype.sort: with a comparator that is not consistent the order
\* is implementation-defined
SortOutcomes(xs) ==
    IF ConsistentComparator(xs) THEN {StableSort(xs)} ELSE Rearrangements(xs)

\* insights.map(i => ...): throws when insights has no map (not an array) or
\* an element is null
MapThrows(v) ==
    v.t # "array" \/ \E k \in 1..Len(v.items) : Throws(v.items[k])

\* the record rebuilt field by field, carouselSlides forgotten
MappedWithoutSlides(v) ==
    [k \in 1..Len(v.items) |-> [WithTotalScore(v.items[k]) EXCEPT !.carouselSlides = <<>>]]

Mapped(v) == [k \in 1..Len(v.items) |-> WithTotalScore(v.items[k])]

\* a catch that swallows the error and answers the empty list
SettlementsSwallowing(txt) ==
    LET parsed == JSONParse(TextOrDefault(txt))
    IN IF ~parsed.ok \/ MapThrows(parsed.value)
       THEN {Fulfilled(<<>>)}
       ELSE {Fulfilled(r) : r \in SortOutcomes(Mapped(parsed.value))}

\* the try block and its catch: the ways the promise can settle for a text
Settlements(txt) ==
    LET parsed == JSONParse(TextOrDefault(txt))
    IN IF ~parsed.ok \/ MapThrows(parsed.value)
       THEN {Rejected(FormatError)}
       ELSE {Fulfilled(r) : r \in SortOutcomes(Mapped(parsed.value))}

(***************************************************************************)
(* The AI service as a program.                                            *)
(***************************************************************************)
RankInit ==
    /\ aiClient = Null
    /\ aiClientKey = ""
    /\ pc = "idle"
    /\ ai = Null
    /\ response = NoResponse
    /\ result = Pending
    /\ callCount = 0
    /\ callKey = ""
    /\ clientsBuilt = 0

\* new GoogleGenAI({ apiKey }): a new object, told apart by its number
GoogleGenAI(key) == [t |-> "client", apiKey |-> key, id |-> clientsBuilt + 1]

\* the cache consulted for its null check only: a changed key is not noticed
getAiClientIgnoringKey(key) ==
    IF aiClient = Null
    THEN [client |-> GoogleGenAI(key), key |-> key, built |-> clientsBuilt + 1]
    ELSE [client |-> aiClient, key |-> aiClientKey, built |-> clientsBuilt]

\* getAiClient: the client it returns and the cache after the call
getAiClient(key) ==
    IF aiClient = Null \/ key # aiClientKey
    THEN [client |-> GoogleGenAI(key), key |-> key, built |-> clientsBuilt + 1]
    ELSE [client |-> aiClient, key |-> aiClientKey, built |-> clientsBuilt]

\* analyzeTranscript up to its await: the client is taken from the cache and
\* generateContent is called
AnalyzeTranscript ==
    /\ pc \in {"idle", "done"}
    /\ callCount < MaxCalls
    /\ \E key \in ApiKeys :
         LET c == getAiClient(key)
         IN /\ aiClient' = c.client
            /\ aiClientKey' = c.key
            /\ clientsBuilt' = c.built
            /\ ai' = c.client
            /\ callKey' = key
    /\ callCount' = callCount + 1
    /\ pc' = "awaiting"
    /\ response' = NoResponse
    /\ result' = Pending
    /\ UNCHANGED <<cleanVars, appVars>>

\* generateContent resolves: the rest of analyzeTranscript runs
GenerateContentResolved ==
    /\ pc = "awaiting"
    /\ \E txt \in ResponseTexts :
         /\ response' = txt
         /\ result' \in Settlements(txt)
    /\ pc' = "done"
    /\ UNCHANGED <<cacheVars, ai, cleanVars, appVars>>

\* generateContent rejects: the await throws outside the try block
GenerateContentRejected ==
    /\ pc = "awaiting"
    /\ result' = Rejected(TransportError)
    /\ pc' = "done"
    /\ UNCHANGED <<cacheVars, ai, response, cleanVars, appVars>>

(***************************************************************************)
(* The App component: its state, the processFile calls in flight and the   *)
(* handlers its rendering offers.  A handler, and each stretch of          *)
(* processFile between two awaits, runs to completion before React renders *)
(* again, so each is one step.                                             *)
(***************************************************************************)
IDLE == "IDLE"
READING == "READING"
ANALYZING == "ANALYZING"
SUCCESS == "SUCCESS"
ERROR == "ERROR"
AppStatus == {IDLE, READING, ANALYZING, SUCCESS, ERROR}

ALLOWED_EXTENSIONS == {".vtt", ".md", ".txt"}
MAX_FILE_BYTES == 5 * 1024 * 1024

\* a File, by the extension processFile computes from its name and its size
Files == [ext : ALLOWED_EXTENSIONS \cup {".pdf"}, size : {0, MAX_FILE_BYTES, MAX_FILE_BYTES + 1}]

NoKeyError == "No API key found."
UnsupportedTypeError == "Unsupported file type."
TooLargeError == "File too large."
ReadError == "file.text rejected"

\* what generateContent answers to the App: no text, a text that is no JSON,
\* an empty list or a list of one insight
AppResponseTexts ==
    {NoText, GarbageText} \cup {JsonText(Array(xs)) : xs \in SeqsUpTo(WellFormedInsights, 1)}

NoCall == [pc |-> "none", apiKey |-> ""]
Slots == 1..MaxPending
FreeSlots == {i \in Slots : calls[i].pc = "none"}
Reading == {i \in Slots : calls[i].pc = "reading"}

AppInit ==
    /\ status = IDLE
    /\ insights = <<>>
    /\ error = Null
    /\ apiKey = ""
    /\ sessionKey = ""
    /\ calls = [i \in Slots |-> NoCall]

\* handleSaveKey, offered by the key screen (rendered while apiKey is empty);
\* trimmed is the trimmed content of the input
handleSaveKey ==
    /\ apiKey = ""
    /\ \E trimmed \in ApiKeys \cup {""} :
         IF trimmed = ""
         THEN UNCHANGED <<apiKey, sessionKey>>
         ELSE /\ sessionKey' = trimmed
              /\ apiKey' = trimmed
    /\ UNCHANGED <<status, insights, error, calls, cleanVars, rankVars>>

\* handleClearKey, offered by the main screen (rendered while apiKey is set)
handleClearKey ==
    /\ apiKey # ""
    /\ sessionKey' = ""
    /\ apiKey' = ""
    /\ status' = IDLE
    /\ insights' = <<>>
    /\ UNCHANGED <<error, calls, cleanVars, rankVars>>

\* the button "Analyze New File" of the results view
AnalyzeNewFile ==
    /\ apiKey # ""
    /\ status = SUCCESS
    /\ status' = IDLE
    /\ UNCHANGED <<insights, error, apiKey, sessionKey, calls, cleanVars, rankVars>>

\* processFile up to its first await, called by handleFileUpload or onDrop of
\* the drop zone (rendered while apiKey is set and status is IDLE or ERROR)
ProcessFile ==
    /\ apiKey # ""
    /\ status \in {IDLE, ERROR}
    /\ FreeSlots # {}
    /\ callCount + Cardinality(Reading) < MaxCalls
    /\ \E file \in Files :
         IF apiKey = ""
         THEN /\ error' = NoKeyError
              /\ status' = ERROR
              /\ UNCHANGED calls
         ELSE IF file.ext \notin ALLOWED_EXTENSIONS
         THEN /\ error' = UnsupportedTypeError
              /\ status' = ERROR
              /\ UNCHANGED calls
         ELSE IF file.size > MAX_FILE_BYTES
         THEN /\ error' = TooLargeError
              /\ status' = ERROR
              /\ UNCHANGED calls
         ELSE /\ error' = Null
              /\ status' = READING
              /\ LET i == CHOOSE k \in FreeSlots : \A j \in FreeSlots : k <= j
                 IN calls' = [calls EXCEPT ![i] = [pc |-> "reading", apiKey |-> apiKey]]
    /\ UNCHANGED <<insights, apiKey, sessionKey, cleanVars, rankVars>>

\* await file.text() resolves: processFile runs on to its second await, inside
\* analyzeTranscript, which has consulted the client cache by then
FileTextResolved ==
    \E i \in Slots :
        /\ calls[i].pc = "reading"
        /\ status' = ANALYZING
        /\ LET c == getAiClient(calls[i].apiKey)
           IN /\ aiClient' = c.client
              /\ aiClientKey' = c.key
              /\ clientsBuilt' = c.built
        /\ callKey' = calls[i].apiKey
        /\ callCount' = callCount + 1
        /\ calls' = [calls EXCEPT ![i].pc = "awaiting"]
        /\ UNCHANGED <<insights, error, apiKey, sessionKey, cleanVars, pc, ai, response, result>>

\* await file.text() rejects: the catch block
FileTextRejected ==
    \E i \in Slots :
        /\ calls[i].pc = "reading"
        /\ error' = ReadError
        /\ status' = ERROR
        /\ calls' = [calls EXCEPT ![i] = NoCall]
        /\ UNCHANGED <<insights, apiKey, sessionKey, cleanVars, rankVars>>

\* await analyzeTranscript(...) settles after generateContent answered
AnalyzeTranscriptSettled ==
    \E i \in Slots, txt \in AppResponseTexts : \E r \in Settlements(txt) :
        /\ calls[i].pc = "awaiting"
        /\ IF r.kind = "fulfilled"
           THEN /\ insights' = r.value
                /\ status' = SUCCESS
                /\ UNCHANGED error
           ELSE /\ error' = r.message
                /\ status' = ERROR
                /\ UNCHANGED insights
        /\ calls' = [calls EXCEPT ![i] = NoCall]
        /\ UNCHANGED <<apiKey, sessionKey, cleanVars, rankVars>>

\* await analyzeTranscript(...) rejects because generateContent did
AnalyzeTranscriptRejected ==
    \E i \in Slots :
        /\ calls[i].pc = "awaiting"
        /\ error' = TransportError
        /\ status' = ERROR
        /\ calls' = [calls EXCEPT ![i] = NoCall]
        /\ UNCHANGED <<insights, apiKey, sessionKey, cleanVars, rankVars>>

Init == CleanInit /\ RankInit /\ AppInit

CleanNext == FileText \/ CleanVttTranscript \/ ProcessFileDone

RankNext == AnalyzeTranscript \/ GenerateContentResolved \/ GenerateContentRejected

AppNext ==
    \/ handleSaveKey
    \/ handleClearKey
    \/ AnalyzeNewFile
    \/ ProcessFile
    \/ FileTextResolved
    \/ FileTextRejected
    \/ AnalyzeTranscriptSettled
    \/ AnalyzeTranscriptRejected

Next == CleanNext \/ RankNext \/ AppNext

\* the normalizer alone
SpecClean == Init /\ [][CleanNext]_vars

\* the AI service alone
SpecRank == Init /\ [][RankNext]_vars

\* the App alone
SpecApp == Init /\ [][AppNext]_vars

Spec == Init /\ [][Next]_vars

(***************************************************************************)
(* Claims about analyzeTranscript (checked under SpecRank).                *)
(***************************************************************************)
SubScoreFields(e) ==
    <<e.informativeScore, e.inspiringScore, e.viralScore, e.linkedinScore>>

\* the list the response decodes to, once analyzeTranscript has got one
Decoded == TextOrDefault(response).value

DecodedIsList ==
    /\ pc = "done"
    /\ response.t \in {"null", "empty", "json"}
    /\ Decoded.t = "array"

\* every element is a record whose four sub-scores are numbers
WellFormedList ==
    /\ DecodedIsList
    /\ \A k \in 1..Len(Decoded.items) :
         /\ Decoded.items[k].t = "object"
         /\ \A f \in 1..4 : IsNumber(SubScoreFields(Decoded.items[k])[f])

\* a and b agree on every field but totalScore
SameButTotalScore(a, b) ==
    [a EXCEPT !.totalScore = Undefined] = [b EXCEPT !.totalScore = Undefined]

\* a totalScore greater than another, by cross-multiplication
Greater(a, b) == a.n * b.d > b.n * a.d

\* C1: for a decoded list whose records carry four numeric sub-scores, every
\* returned element has totalScore = (informativeScore + inspiringScore +
\* viralScore + linkedinScore) / 4, whatever totalScore the input carried.
C1_TotalScoreIsMean ==
    WellFormedList =>
        /\ result.kind = "fulfilled"
        /\ \A k \in 1..Len(result.value) :
             LET e == result.value[k]
             IN /\ IsNumber(e.totalScore)
                /\ 4 * e.totalScore.n =
                     e.totalScore.d * (e.informativeScore.n + e.inspiringScore.n
                                        + e.viralScore.n + e.linkedinScore.n)

\* C1's case: a record that came with totalScore 99 is returned with 7
C1_Witness ==
    /\ WellFormedList
    /\ \E k \in 1..Len(Decoded.items) : Decoded.items[k].totalScore = Num(99)
    /\ \E k \in 1..Len(result.value) :
         result.value[k].id = "i1" /\ NumEq(result.value[k].totalScore, Num(7))

\* C2: for a well-formed list the returned list is ordered by totalScore
\* descending, and elements with equal totalScore keep the relative order
\* they had in the input.
C2_SortedDescendingStable ==
    WellFormedList =>
        /\ result.kind = "fulfilled"
        /\ \A p, q \in 1..Len(result.value) :
             p < q => ~Greater(result.value[q].totalScore, result.value[p].totalScore)
        /\ \E f \in Permutations(1..Len(Decoded.items)) :
             /\ Len(result.value) = Len(Decoded.items)
             /\ \A p \in 1..Len(result.value) :
                  SameButTotalScore(result.value[p], Decoded.items[f[p]])
             /\ \A p, q \in 1..Len(result.value) :
                  (p < q /\ NumEq(result.value[p].totalScore, result.value[q].totalScore))
                      => f[p] < f[q]

\* C2's case: two different records tie, and the sort moved an element
C2_Witness ==
    /\ WellFormedList
    /\ result.kind = "fulfilled"
    /\ \E p, q \in 1..Len(result.value) :
         /\ p < q
         /\ NumEq(result.value[p].totalScore, result.value[q].totalScore)
         /\ result.value[p].id # result.value[q].id
    /\ \E p \in 1..Len(result.value) :
         ~SameButTotalScore(result.value[p], Decoded.items[p])

\* C3: the returned list is a permutation of the input list of the same
\* length (an empty list gives an empty list), every field other than
\* totalScore is unchanged (the slides in their order), duplicate ids are kept.
C3_PermutationFieldsUnchanged ==
    (DecodedIsList /\ result.kind = "fulfilled") =>
        /\ Len(result.value) = Len(Decoded.items)
        /\ \E f \in Permutations(1..Len(Decoded.items)) :
             \A p \in 1..Len(result.value) :
                 SameButTotalScore(result.value[p], Decoded.items[f[p]])

\* C3's case: a returned list that holds an id twice and a record with slides,
\* in another order than the input
C3_Witness ==
    /\ DecodedIsList
    /\ result.kind = "fulfilled"
    /\ \E p, q \in 1..Len(result.value) :
         p # q /\ result.value[p].id = result.value[q].id
    /\ \E p \in 1..Len(result.value) : Len(result.value[p].carouselSlides) = 2
    /\ \E p \in 1..Len(result.value) :
         ~SameButTotalScore(result.value[p], Decoded.items[p])

\* C4: a non-empty response text that is no JSON makes analyzeTranscript fail
\* with the one format error and return no list; a missing (null) response
\* text is treated as the empty list.
C4_UnparseableTextRejected ==
    /\ (pc = "done" /\ response.t = "garbage") => result = Rejected(FormatError)
    /\ (pc = "done" /\ response.t = "null") => result = Fulfilled(<<>>)

\* C4's case: the call has settled on a text that is no JSON
C4_Witness ==
    /\ pc = "done"
    /\ response = GarbageText
    /\ result.kind = "rejected"

\* C5: when an element of the decoded response lacks one of the four
\* sub-scores, analyzeTranscript signals a failure to its caller instead of
\* returning a ranked list.
C5_MissingSubScoreSignalsFailure ==
    (/\ DecodedIsList
     /\ \E k \in 1..Len(Decoded.items) :
          /\ Decoded.items[k].t = "object"
          /\ \E f \in 1..4 : SubScoreFields(Decoded.items[k])[f] = Undefined)
        => result.kind = "rejected"

(***************************************************************************)
(* Claims about cleanVttTranscript (checked under SpecClean). A line is    *)
(* what the regular expressions take for one: it ends at a line            *)
(* terminator or at the end of the text.                                   *)
(***************************************************************************)
\* the literal tok stands at position i of s
StartsAt(s, i, tok) ==
    /\ i >= 1
    /\ i + Len(tok) - 1 <= Len(s)
    /\ SubSeq(s, i, i + Len(tok) - 1) = tok

\* the positions at which a line of s begins
LineStarts(s) == {i \in 1..Len(s) : i = 1 \/ s[i - 1] \in LineTerminators}

\* DD:DD:DD.DDD --> DD:DD:DD.DDD stands at position i of s
RangeAt(s, i) ==
    /\ i >= 1
    /\ i + Len(Timestamp) - 1 <= Len(s)
    /\ \A k \in 1..Len(Timestamp) :
         IF Timestamp[k] \in Digits THEN s[i + k - 1] \in Digits
         ELSE s[i + k - 1] = Timestamp[k]

HasRange(s) == \E i \in 1..Len(s) : RangeAt(s, i)

HasNewlineRun(s) == \E i \in 1..Len(s) : StartsAt(s, i, <<"\n", "\n", "\n">>)

Untrimmed(s) == s # <<>> /\ (s[1] \in WhiteSpace \/ s[Len(s)] \in WhiteSpace)

\* the lines of s, without their terminators
RECURSIVE LinesFrom(_, _, _)
LinesFrom(s, i, line) ==
    IF i > Len(s) THEN <<line>>
    ELSE IF s[i] \in LineTerminators THEN <<line>> \o LinesFrom(s, i + 1, <<>>)
    ELSE LinesFrom(s, i + 1, Append(line, s[i]))

Lines(s) == LinesFrom(s, 1, <<>>)

IsTerminator(c) == c \in LineTerminators
Terminators(s) == SelectSeq(s, IsTerminator)

IsBlank(c) == c \in WhiteSpace
IsNoBlank(c) == c \notin WhiteSpace

\* a cue sequence number: a line that is a digit string once trimmed
DigitOnly(line) ==
    LET body == SelectSeq(line, IsNoBlank)
    IN /\ body # <<>>
       /\ \A k \in 1..Len(line) : line[k] \in Digits \cup WhiteSpace
       /\ \A j, k \in 1..Len(line) :
            (j < k /\ line[j] \in Digits /\ line[k] \in Digits)
                => \A m \in j..k : line[m] \in Digits

\* a text with nothing for cleanVttTranscript to strip
Plain(s) ==
    /\ \A i \in LineStarts(s) : ~StartsAt(s, i, WEBVTT) /\ ~StartsAt(s, i, NOTE)
    /\ \A k \in 1..Len(Lines(s)) : ~DigitOnly(Lines(s)[k])
    /\ ~HasRange(s)
    /\ ~Untrimmed(s)
    /\ ~HasNewlineRun(s)

\* C6: a text without a line starting with WEBVTT or NOTE, without a
\* digit-only line, without a timestamp range, without leading or trailing
\* whitespace and without a run of 3 or more newlines is returned as it is.
C6_PlainTextUnchanged ==
    (cpc = "cleaned" /\ Plain(text)) => cleaned = text

\* C6's case: a plain text of several lines that holds a digit
C6_Witness ==
    /\ cpc = "cleaned"
    /\ Plain(text)
    /\ \E i \in 1..Len(text) : text[i] = "\n"
    /\ \E i \in 1..Len(text) : text[i] \in Digits
    /\ cleaned = text

\* C7: the result has no leading whitespace, no trailing whitespace and no
\* run of 3 or more newlines.
C7_TrimmedAndCollapsed ==
    cpc = "cleaned" => ~Untrimmed(cleaned) /\ ~HasNewlineRun(cleaned)

\* C7's case: a text that begins with whitespace and holds a run of newlines
\* between two words
C7_Witness ==
    /\ cpc = "cleaned"
    /\ Untrimmed(text)
    /\ HasNewlineRun(text)
    /\ Len(cleaned) >= 4
    /\ \E i \in 1..Len(cleaned) : StartsAt(cleaned, i, <<"\n", "\n">>)

\* C8 as claimed: no line of the result begins with WEBVTT.
C8_NoLineBeginsWithWebvtt ==
    cpc = "cleaned" => \A i \in LineStarts(cleaned) : ~StartsAt(cleaned, i, WEBVTT)

\* C8, amended: every line of the input that begins with WEBVTT is deleted in
\* full, with the metadata that follows the token on it, so that no line
\* begins with WEBVTT after the header rule; in the result no line but the
\* first begins with WEBVTT, and the first does only when the input had
\* whitespace other than a line break directly before the token, which the
\* final trim removed.
C8_HeaderLinesDeleted ==
    cpc = "cleaned" =>
        LET before == Lines(text)
            after == Lines(RemoveWebvtt(text))
        IN /\ Len(after) = Len(before)
           /\ Terminators(RemoveWebvtt(text)) = Terminators(text)
           /\ \A k \in 1..Len(before) :
                after[k] = IF StartsAt(before[k], 1, WEBVTT) THEN <<>> ELSE before[k]
           /\ \A i \in LineStarts(cleaned) \ {1} : ~StartsAt(cleaned, i, WEBVTT)
           /\ StartsAt(cleaned, 1, WEBVTT) =>
                \E i \in 2..Len(text) :
                    /\ StartsAt(text, i, WEBVTT)
                    /\ text[i - 1] \in WhiteSpace \ LineTerminators

\* C8's case: a header line with metadata behind the token, in a text of
\* which something is left
C8_Witness ==
    /\ cpc = "cleaned"
    /\ \E i \in LineStarts(text) :
         /\ StartsAt(text, i, WEBVTT)
         /\ i + Len(WEBVTT) <= Len(text)
         /\ text[i + Len(WEBVTT)] \notin LineTerminators
    /\ cleaned # <<>>

\* the part of a line in front of its first timestamp range
BeforeRange(line) ==
    IF HasRange(line)
    THEN LET first == CHOOSE i \in 1..Len(line) :
                          RangeAt(line, i) /\ \A j \in 1..(i - 1) : ~RangeAt(line, j)
         IN SubSeq(line, 1, first - 1)
    ELSE line

\* the text the timestamp rule is applied to
BeforeTimestampRule(t) == RemoveSeq(RemoveNotes(RemoveWebvtt(t)))

\* C9: the result holds no DD:DD:DD.DDD --> DD:DD:DD.DDD; the timestamp rule
\* removes each range with the rest of its line and nothing else: every line
\* keeps what stands in front of its first range, no line break is consumed
\* and a line without a range is left as it is.
C9_TimestampRangesRemoved ==
    cpc = "cleaned" =>
        /\ ~HasRange(cleaned)
        /\ \A u \in {text, BeforeTimestampRule(text)} :
             LET before == Lines(u)
                 after == Lines(RemoveTimestamps(u))
             IN /\ Len(after) = Len(before)
                /\ Terminators(RemoveTimestamps(u)) = Terminators(u)
                /\ \A k \in 1..Len(before) : after[k] = BeforeRange(before[k])

\* C9's case: a range followed by cue settings on its line and by a line of text
C9_Witness ==
    /\ cpc = "cleaned"
    /\ \E i \in 1..Len(text) :
         /\ RangeAt(text, i)
         /\ i + Len(Timestamp) <= Len(text)
         /\ text[i + Len(Timestamp)] \notin LineTerminators
         /\ \E j \in (i + Len(Timestamp))..(Len(text) - 1) :
              text[j] = "\n" /\ text[j + 1] \notin WhiteSpace
    /\ cleaned # <<>>

\* C10: the timestamp rule removes no character of a malformed timestamp
\* line: a wrong digit count in a field, a separator other than "." before
\* the milliseconds, or an arrow not spelled " --> ".
C10_MalformedTimestampUntouched ==
    (cpc = "cleaned" /\ text \in MalformedTimestamps) => RemoveTimestamps(text) = text

\* C11: every line that is a digit string with optional whitespace around it
\* (a cue sequence number) is removed, so no line of the result is a digit
\* string once trimmed; a line that holds a character other than digits and
\* whitespace is not removed by the sequence-number rule.
C11_SequenceNumbersRemoved ==
    cpc = "cleaned" =>
        /\ \A k \in 1..Len(Lines(cleaned)) : ~DigitOnly(Lines(cleaned)[k])
        /\ \A k \in 1..Len(Lines(text)) :
             (\E j \in 1..Len(Lines(text)[k]) :
                  Lines(text)[k][j] \notin Digits \cup WhiteSpace)
                 => \E m \in 1..Len(Lines(RemoveSeq(text))) :
                        Lines(RemoveSeq(text))[m] = Lines(text)[k]

(***************************************************************************)
(* Claims about the client cache (checked under SpecRank).                 *)
(***************************************************************************)
\* a step in which analyzeTranscript is called
CallStep == callCount' = callCount + 1

\* C13: the client a call uses was constructed with that call's apiKey, and
\* a client is constructed only when there is none yet or the key differs
\* from the key of the call before; calls with the same key in a row share
\* one client.
C13_ClientMatchesKeyAndIsReused ==
    [][CallStep =>
        /\ ai'.apiKey = callKey'
        /\ IF callCount = 0 \/ callKey' # callKey
           THEN clientsBuilt' = clientsBuilt + 1 /\ ai'.id = clientsBuilt'
           ELSE clientsBuilt' = clientsBuilt /\ ai' = ai]_vars

\* C13's case: three calls, one of which reused the client of the call before
\* and one of which had to build another
C13_Witness ==
    /\ callCount = 3
    /\ clientsBuilt = 2
    /\ pc = "awaiting"

(***************************************************************************)
(* Claims about the App (checked under SpecApp).                           *)
(***************************************************************************)
\* C12: the insights of an earlier successful analysis are discarded when a
\* new file is processed or an error occurs: while status is READING,
\* ANALYZING or ERROR, the stored insights list is empty.
C12_InsightsDiscarded ==
    status \in {READING, ANALYZING, ERROR} => insights = <<>>

\* C14: clearing the API key resets the session even while a processFile call
\* is in flight: whenever the stored apiKey is empty, status is IDLE and the
\* insights list is empty.
C14_ClearedKeyMeansIdle ==
    apiKey = "" => status = IDLE /\ insights = <<>>

====
